---- MODULE Spec2Model ----
(***************************************************************************)
(* Model of app/components/Calculator.tsx: the request lifecycle of the    *)
(* Calculator component (loading / result / error), the effect that reacts *)
(* to the selectedStock prop, and the clipboard copy with its reset timer. *)
(*                                                                         *)
(* The component runs on the browser's event loop: every action below is   *)
(* one run-to-completion task (an event handler, an effect, or the         *)
(* continuation of an async function after an await).  State updates made  *)
(* inside one task are batched and become visible together.                *)
(***************************************************************************)
EXTENDS Integers, Sequences, FiniteSets, TLC

VARIABLES
    loading,        \* useState(false), line 59
    result,         \* useState<StockAnalysisResult | null>(null), line 60
    error,          \* useState<string | null>(null), line 61
    copied,         \* useState(false), line 62
    selectedStock,  \* the prop the effect at line 65 last ran with
    requests,       \* one entry per handleSubmit call, in issue order
    fetchBody,      \* the StockInput sent as body of the latest fetch (line 90)
    writes,         \* clipboard writes awaited at line 112
    timers,         \* pending setTimeout callbacks of line 114
    lastEvent,      \* the task that ran last (history)
    fetchCalls,     \* calls of fetch() made so far (line 85)
    fmtIn,          \* the argument formatResultForCopy is applied to
    fmtOut          \* what formatResultForCopy returned or threw

vars == <<loading, result, error, copied, selectedStock, requests, fetchBody,
          writes, timers, lastEvent, fetchCalls, fmtIn, fmtOut>>

\* The variables of the component, and those of the serializer on its own.
calcVars == <<loading, result, error, copied, selectedStock, requests,
              fetchBody, writes, timers, lastEvent, fetchCalls>>
fmtVars == <<fmtIn, fmtOut>>

---------------------------------------------------------------------------
(* Bounds of the model. *)
MaxRequests == 2    \* handleSubmit calls in one behaviour
MaxCopies == 2      \* clipboard writes and reset timers pending at once

---------------------------------------------------------------------------
(* Values. *)
Null == "null"
Undefined == "undefined"
Absent == "absent"          \* a field the JSON payload does not carry

Tickers == {"BBCA", "TLKM"}
Dates == {"2024-01-01", "2024-01-31"}

\* What the parent may pass as selectedStock (string | null).
PropValues == Tickers \cup {Null}

\* StockInput values the form submits.
FormInputs ==
    { [emiten |-> "BBCA", fromDate |-> "2024-01-01", toDate |-> "2024-01-31"],
      [emiten |-> "TLKM", fromDate |-> "2024-01-31", toDate |-> "2024-01-31"] }

NoInput == [emiten |-> Null, fromDate |-> Null, toDate |-> Null]

\* JavaScript truthiness of the values used here.
Truthy(v) == v \notin {Null, Undefined, Absent, "", "false"}

\* Payload data: a complete analysis, and one without marketData.
DataComplete == "dataComplete"
DataNoMarket == "dataNoMarket"

FallbackAnalyze == "Failed to analyze stock"
FallbackGeneric == "An error occurred"

\* JSON literals of the payload's success field.
JsTrue == "true"
JsFalse == "false"

\* A value thrown out of fetch() or response.json().
Thrown(isErr, msg) ==
    [kind |-> "throw", isError |-> isErr, message |-> msg,
     success |-> Absent, data |-> Absent, error |-> Absent]

\* A parsed response body {success?, data?, error?}.
Payload(success, data, err) ==
    [kind |-> "payload", isError |-> FALSE, message |-> Absent,
     success |-> success, data |-> data, error |-> err]

NoOutcome ==
    [kind |-> "none", isError |-> FALSE, message |-> Absent,
     success |-> Absent, data |-> Absent, error |-> Absent]

\* fetch() rejects with a TypeError, or with a thrown value that is no Error.
FetchThrows == { Thrown(TRUE, "Failed to fetch"), Thrown(FALSE, Absent) }

\* response.json() rejects with a SyntaxError.
JsonThrows == { Thrown(TRUE, "Unexpected token < in JSON") }

Payloads ==
    { Payload(JsTrue, DataComplete, Absent),
      Payload(JsTrue, DataNoMarket, Absent),
      Payload(JsFalse, Absent, "Emiten not found"),
      Payload(JsFalse, Absent, Absent),
      Payload(Absent, Absent, "Emiten not found"),
      Payload(Absent, Absent, Absent) }

\* Reading a field of a parsed object: a missing field reads as undefined.
Field(v) == IF v = Absent THEN Undefined ELSE v

---------------------------------------------------------------------------
(* Requests. *)
NewRequest == [pc |-> "fetch", outcome |-> NoOutcome]

Issued == Len(requests)
InFlight == { i \in 1..Len(requests) : requests[i].pc # "done" }
Done == { i \in 1..Len(requests) : requests[i].pc = "done" }

Event(type, req) == [type |-> type, req |-> req]

InitCalc ==
    /\ loading = FALSE
    /\ result = Null
    /\ error = Null
    /\ copied = FALSE
    /\ selectedStock = Null
    /\ requests = << >>
    /\ fetchBody = NoInput
    /\ writes = 0
    /\ timers = 0
    /\ lastEvent = Event("mount", 0)
    /\ fetchCalls = 0

\* handleSubmit without setResult(null).
HandleSubmitKeepsResult(data) ==
    /\ loading' = TRUE
    /\ error' = Null
    /\ UNCHANGED result
    /\ requests' = Append(requests, NewRequest)
    /\ fetchBody' = data
    /\ fetchCalls' = fetchCalls + 1

\* handleSubmit up to its first await: lines 80-91.
HandleSubmit(data) ==
    /\ loading' = TRUE
    /\ error' = Null
    /\ result' = Null
    /\ requests' = Append(requests, NewRequest)
    /\ fetchBody' = data
    /\ fetchCalls' = fetchCalls + 1

\* InputForm calls onSubmit={handleSubmit} (line 129).
FormSubmit(data) ==
    /\ Len(requests) < MaxRequests
    /\ HandleSubmit(data)
    /\ lastEvent' = Event("submit", Len(requests) + 1)
    /\ UNCHANGED <<copied, selectedStock, writes, timers, fmtIn, fmtOut>>

\* The effect of lines 65-77, run for one value of the prop.
EffectBody(ticker, defaultDate) ==
    IF Truthy(ticker)
    THEN /\ Len(requests) < MaxRequests
         /\ result' = Null
         /\ error' = Null
         /\ HandleSubmit([emiten |-> ticker, fromDate |-> defaultDate,
                          toDate |-> defaultDate])
    ELSE UNCHANGED <<loading, result, error, requests, fetchBody, fetchCalls>>

\* The effect without its dependency array: it runs on every render.
SelectStockEveryRender(ticker, defaultDate) ==
    /\ selectedStock' = ticker
    /\ EffectBody(ticker, defaultDate)
    /\ lastEvent' = Event("select", 0)
    /\ UNCHANGED <<copied, writes, timers, fmtIn, fmtOut>>

\* The parent renders the component with selectedStock = ticker; the effect
\* runs only when the dependency [selectedStock] changed (line 77).
SelectStock(ticker, defaultDate) ==
    /\ selectedStock' = ticker
    /\ IF ticker # selectedStock
       THEN EffectBody(ticker, defaultDate)
       ELSE UNCHANGED <<loading, result, error, requests, fetchBody, fetchCalls>>
    /\ lastEvent' = Event("select", 0)
    /\ UNCHANGED <<copied, writes, timers, fmtIn, fmtOut>>

\* The message the catch block stores (line 101).
CatchMessage(t) == IF t.isError THEN t.message ELSE FallbackGeneric

\* The Error thrown for a payload that does not report success (line 96).
PayloadError(p) ==
    Thrown(TRUE, IF Truthy(Field(p.error)) THEN p.error ELSE FallbackAnalyze)

Settle(i, o) == [requests EXCEPT ![i] = [pc |-> "done", outcome |-> o]]

\* catch without the finally block: setLoading(false) is skipped on a throw.
CatchWithoutFinally(t) ==
    /\ error' = CatchMessage(t)
    /\ UNCHANGED <<loading, result, fetchCalls>>

\* A catch block that also calls setResult(null).
CatchFinallyClearsResult(t) ==
    /\ error' = CatchMessage(t)
    /\ loading' = FALSE
    /\ result' = Null
    /\ UNCHANGED fetchCalls

\* A catch block that calls fetch again after a failure.
CatchFinallyRetries(t) ==
    /\ error' = CatchMessage(t)
    /\ loading' = FALSE
    /\ fetchCalls' = fetchCalls + 1
    /\ UNCHANGED result

\* catch and finally: lines 100-104.
CatchFinally(t) ==
    /\ error' = CatchMessage(t)
    /\ loading' = FALSE
    /\ UNCHANGED <<result, fetchCalls>>

\* await fetch(...) resolves with a response (line 85); response.json() starts.
FetchResolve(i) ==
    /\ i \in 1..Len(requests)
    /\ requests[i].pc = "fetch"
    /\ requests' = [requests EXCEPT ![i].pc = "json"]
    /\ lastEvent' = Event("fetchResolve", i)
    /\ UNCHANGED <<loading, result, error, copied, selectedStock, fetchBody,
                   writes, timers, fetchCalls, fmtIn, fmtOut>>

\* await fetch(...) throws: lines 85, 100-104.
FetchReject(i, t) ==
    /\ i \in 1..Len(requests)
    /\ requests[i].pc = "fetch"
    /\ requests' = Settle(i, t)
    /\ CatchFinally(t)
    /\ lastEvent' = Event("fetchReject", i)
    /\ UNCHANGED <<copied, selectedStock, fetchBody, writes, timers, fmtIn,
                   fmtOut>>

\* A continuation that drops the outcome of every request but the one
\* issued last.
JsonResolveLatestOnly(i, p) ==
    /\ i \in 1..Len(requests)
    /\ requests[i].pc = "json"
    /\ requests' = Settle(i, p)
    /\ IF i # Len(requests)
       THEN UNCHANGED <<loading, result, error, fetchCalls>>
       ELSE IF Truthy(Field(p.success))
            THEN /\ result' = Field(p.data)
                 /\ loading' = FALSE
                 /\ UNCHANGED <<error, fetchCalls>>
            ELSE CatchFinally(PayloadError(p))
    /\ lastEvent' = Event("jsonResolve", i)
    /\ UNCHANGED <<copied, selectedStock, fetchBody, writes, timers, fmtIn,
                   fmtOut>>

\* setLoading(false) written in the catch block only, not in a finally.
JsonResolveKeepsLoading(i, p) ==
    /\ i \in 1..Len(requests)
    /\ requests[i].pc = "json"
    /\ requests' = Settle(i, p)
    /\ IF Truthy(Field(p.success))
       THEN /\ result' = Field(p.data)
            /\ UNCHANGED <<loading, error, fetchCalls>>
       ELSE CatchFinally(PayloadError(p))
    /\ lastEvent' = Event("jsonResolve", i)
    /\ UNCHANGED <<copied, selectedStock, fetchBody, writes, timers, fmtIn,
                   fmtOut>>

\* await response.json() resolves with the payload p: lines 93-104.
JsonResolve(i, p) ==
    /\ i \in 1..Len(requests)
    /\ requests[i].pc = "json"
    /\ requests' = Settle(i, p)
    /\ IF Truthy(Field(p.success))
       THEN /\ result' = Field(p.data)
            /\ loading' = FALSE
            /\ UNCHANGED <<error, fetchCalls>>
       ELSE CatchFinally(PayloadError(p))
    /\ lastEvent' = Event("jsonResolve", i)
    /\ UNCHANGED <<copied, selectedStock, fetchBody, writes, timers, fmtIn,
                   fmtOut>>

\* await response.json() throws: lines 93, 100-104.
JsonReject(i, t) ==
    /\ i \in 1..Len(requests)
    /\ requests[i].pc = "json"
    /\ requests' = Settle(i, t)
    /\ CatchFinally(t)
    /\ lastEvent' = Event("jsonReject", i)
    /\ UNCHANGED <<copied, selectedStock, fetchBody, writes, timers, fmtIn,
                   fmtOut>>

---------------------------------------------------------------------------
(* Clipboard copy. *)

\* formatResultForCopy reads marketData.harga (lines 23, 37): a result
\* without marketData makes it throw a TypeError.
FormatThrows(r) == r = DataNoMarket

\* handleCopy up to its await: lines 107-112, and the catch of 115-117 when
\* formatResultForCopy throws.
HandleCopy ==
    /\ IF ~Truthy(result) \/ FormatThrows(result)
       THEN UNCHANGED writes
       ELSE /\ writes + timers < MaxCopies
            /\ writes' = writes + 1
    /\ lastEvent' = Event("copy", 0)
    /\ UNCHANGED <<loading, result, error, copied, selectedStock, requests,
                   fetchBody, timers, fetchCalls, fmtIn, fmtOut>>

\* navigator.clipboard.writeText resolves: lines 113-114.
ClipboardResolve ==
    /\ writes > 0
    /\ writes' = writes - 1
    /\ copied' = TRUE
    /\ timers' = timers + 1
    /\ lastEvent' = Event("writeResolve", 0)
    /\ UNCHANGED <<loading, result, error, selectedStock, requests, fetchBody,
                   fetchCalls, fmtIn, fmtOut>>

\* setCopied(true) placed where a rejected write reaches it too.
ClipboardRejectSetsCopied ==
    /\ writes > 0
    /\ writes' = writes - 1
    /\ copied' = TRUE
    /\ lastEvent' = Event("writeReject", 0)
    /\ UNCHANGED <<loading, result, error, selectedStock, requests, fetchBody,
                   timers, fetchCalls, fmtIn, fmtOut>>

\* navigator.clipboard.writeText rejects: lines 115-117.
ClipboardReject ==
    /\ writes > 0
    /\ writes' = writes - 1
    /\ lastEvent' = Event("writeReject", 0)
    /\ UNCHANGED <<loading, result, error, copied, selectedStock, requests,
                   fetchBody, timers, fetchCalls, fmtIn, fmtOut>>

\* The callback of setTimeout(..., 2000) runs: line 114.
TimerFire ==
    /\ timers > 0
    /\ timers' = timers - 1
    /\ copied' = FALSE
    /\ lastEvent' = Event("timer", 0)
    /\ UNCHANGED <<loading, result, error, selectedStock, requests, fetchBody,
                   writes, fetchCalls, fmtIn, fmtOut>>

---------------------------------------------------------------------------
(* Result serializer: formatResultForCopy, lines 17-56. *)

\* JavaScript values of the numeric fields.  A finite number is kept in
\* hundredths (h = 100 * value), which holds every value used here exactly.
JsNum(h) == [t |-> "num", h |-> h]
JsNull == [t |-> "null", h |-> 0]
JsUndefined == [t |-> "undefined", h |-> 0]
JsNaN == [t |-> "nan", h |-> 0]

Nullish(v) == v.t \in {"null", "undefined"}

\* ToNumber, applied by the operators - and /: null is 0, undefined is NaN.
ToNumber(v) ==
    IF v.t = "null" THEN JsNum(0)
    ELSE IF v.t = "undefined" THEN JsNaN
    ELSE v

Abs(n) == IF n < 0 THEN -n ELSE n

Pad2(k) == IF k < 10 THEN "0" \o ToString(k) ELSE ToString(k)
Pad3(k) == IF k < 100 THEN "0" \o Pad2(k) ELSE ToString(k)

\* The locale toLocaleString() falls back to is the runtime's default.
Locales == {"en-US", "id-ID"}
GroupSep(locale) == IF locale = "en-US" THEN "," ELSE "."
DecimalSep(locale) == IF locale = "en-US" THEN "." ELSE ","

\* Digits of a natural number in groups of three.
RECURSIVE Grouped(_, _)
Grouped(n, sep) ==
    IF n < 1000 THEN ToString(n)
    ELSE Grouped(n \div 1000, sep) \o sep \o Pad3(n % 1000)

\* The fraction digits of f hundredths, trailing zeros dropped.
Fraction(f, dec) ==
    IF f = 0 THEN ""
    ELSE IF f % 10 = 0 THEN dec \o ToString(f \div 10)
    ELSE dec \o Pad2(f)

\* Number.prototype.toLocaleString() (line 20).
ToLocaleString(v, locale) ==
    IF v.t = "nan" THEN "NaN"
    ELSE (IF v.h < 0 THEN "-" ELSE "")
         \o Grouped(Abs(v.h) \div 100, GroupSep(locale))
         \o Fraction(Abs(v.h) % 100, DecimalSep(locale))

\* String(value), as a template literal's ${...} applies it (lines 51-52).
ToStringJs(v) ==
    IF v.t = "null" THEN "null"
    ELSE IF v.t = "undefined" THEN "undefined"
    ELSE IF v.t = "nan" THEN "NaN"
    ELSE (IF v.h < 0 THEN "-" ELSE "")
         \o ToString(Abs(v.h) \div 100) \o Fraction(Abs(v.h) % 100, ".")

\* formatNumber: num?.toLocaleString() ?? '-' (line 20).
formatNumber(v, locale) ==
    IF Nullish(v) THEN "-" ELSE ToLocaleString(v, locale)

\* value / 100 (lines 41-42).  totalBid and totalOffer are whole numbers
\* in every input used here, so the quotient has at most two decimals.
Div100(v) ==
    LET n == ToNumber(v) IN
    IF n.t = "num" THEN JsNum(n.h \div 100) ELSE n

\* (x).toFixed(2) of the finite number x = (num / den) * 100, den # 0: the
\* sign of x, then |x| rounded to the nearest hundredth (a tie goes up).
\* The quotient is taken by long division, two decimal digits at a time, so
\* that no intermediate value leaves the 32-bit integers.
ToFixed2(num, den) ==
    LET d == Abs(den)
        q == Abs(num) \div d
        r == Abs(num) % d
        d1 == (r * 100) \div d
        r1 == (r * 100) % d
        d2 == (2 * r1 * 100 + d) \div (2 * d)
        n == q * 10000 + d1 * 100 + d2
    IN  (IF (num < 0) # (den < 0) /\ num # 0 THEN "-" ELSE "")
        \o ToString(n \div 100) \o "." \o Pad2(n % 100)

\* toFixed(2) that cuts the digits after the second decimal off.
calculateGainTruncates(target, harga) ==
    LET t == ToNumber(target)
        p == ToNumber(harga)
        d == Abs(p.h)
        q == Abs(t.h - p.h) \div d
        r == Abs(t.h - p.h) % d
        n == q * 10000 + ((r * 100) \div d) * 100
             + ((((r * 100) % d) * 100) \div d)
    IN  IF t.t = "nan" \/ p.t = "nan" THEN "NaN"
        ELSE IF p.h = 0
             THEN (IF t.h = 0 THEN "NaN"
                   ELSE IF t.h > 0 THEN "Infinity" ELSE "-Infinity")
        ELSE (IF (t.h - p.h < 0) # (p.h < 0) /\ t.h # p.h THEN "-" ELSE "")
             \o ToString(n \div 100) \o "." \o Pad2(n % 100)

\* calculateGain (lines 22-25), with marketData.harga passed in:
\* (((target - harga) / harga) * 100).toFixed(2).
calculateGain(target, harga) ==
    LET t == ToNumber(target)
        p == ToNumber(harga)
    IN  IF t.t = "nan" \/ p.t = "nan" THEN "NaN"
        ELSE IF p.h = 0
             THEN (IF t.h = 0 THEN "NaN"
                   ELSE IF t.h > 0 THEN "Infinity" ELSE "-Infinity")
        ELSE ToFixed2(t.h - p.h, p.h)

\* String.prototype.toUpperCase on the tickers used (line 28).
ToUpperCase(str) ==
    CASE str = "bbca" -> "BBCA"
      [] str = "tlkm" -> "TLKM"
      [] OTHER -> str

\* A template literal is the concatenation of its chunks.
RECURSIVE Concat(_)
Concat(chunks) ==
    IF chunks = << >> THEN "" ELSE Head(chunks) \o Concat(Tail(chunks))

\* lines.join('\n') (line 55).
RECURSIVE JoinLines(_)
JoinLines(ls) ==
    IF ls = << >> THEN ""
    ELSE IF Len(ls) = 1 THEN Concat(Head(ls))
    ELSE Concat(Head(ls)) \o "\n" \o JoinLines(Tail(ls))

\* The numeric fields formatResultForCopy prints, and the element of the
\* lines array (lines 27-53) each is printed in.
NumericFields ==
    {"barangBandar", "rataRataBandar", "harga", "offerTeratas", "bidTerbawah",
     "fraksi", "totalBid", "totalOffer", "totalPapan", "rataRataBidOfer",
     "a", "p", "targetRealistis1", "targetMax"}

LineOf(f) ==
    CASE f = "barangBandar" -> 6
      [] f = "rataRataBandar" -> 7
      [] f = "harga" -> 10
      [] f = "offerTeratas" -> 11
      [] f = "bidTerbawah" -> 12
      [] f = "fraksi" -> 13
      [] f = "totalBid" -> 14
      [] f = "totalOffer" -> 15
      [] f = "totalPapan" -> 18
      [] f = "rataRataBidOfer" -> 19
      [] f = "a" -> 20
      [] f = "p" -> 21
      [] f = "targetRealistis1" -> 24
      [] f = "targetMax" -> 25

\* formatResultForCopy (lines 17-56).  r is the StockAnalysisResult with its
\* numeric fields in r.num; every line is kept as the chunks of its template
\* literal, the interpolated value being chunk 2.
formatResultForCopy(r, locale) ==
    IF r.shape = DataNoMarket
    THEN [kind |-> "throw", lines |-> << >>, text |-> "TypeError"]
    ELSE
    LET n(f) == formatNumber(r.num[f], locale)
        lines ==
          << <<"ANALISIS SAHAM: ", ToUpperCase(r.emiten)>>,
             <<"Periode: ", r.fromDate, " s/d ", r.toDate>>,
             <<"">>,
             <<"TOP BROKER">>,
             <<"Broker: ", r.bandar>>,
             <<"Barang Bandar: ", n("barangBandar"), " lot">>,
             <<"Rata-rata Harga: Rp ", n("rataRataBandar")>>,
             <<"">>,
             <<"MARKET DATA">>,
             <<"Harga: Rp ", n("harga")>>,
             <<"Offer Max: Rp ", n("offerTeratas")>>,
             <<"Bid Min: Rp ", n("bidTerbawah")>>,
             <<"Fraksi: ", n("fraksi")>>,
             <<"Total Bid: ", formatNumber(Div100(r.num["totalBid"]), locale)>>,
             <<"Total Offer: ",
               formatNumber(Div100(r.num["totalOffer"]), locale)>>,
             <<"">>,
             <<"CALCULATIONS">>,
             <<"Total Papan: ", n("totalPapan")>>,
             <<"Rata² Bid/Offer: ", n("rataRataBidOfer")>>,
             <<"a (5% dari rata² bandar): ", n("a")>>,
             <<"p (Barang/Rata² Bid Offer): ", n("p")>>,
             <<"">>,
             <<"TARGET PRICES">>,
             <<"Target Min: ", ToStringJs(r.num["targetRealistis1"]), " (+",
               calculateGain(r.num["targetRealistis1"], r.num["harga"]), "%)">>,
             <<"Target Max: ", ToStringJs(r.num["targetMax"]), " (+",
               calculateGain(r.num["targetMax"], r.num["harga"]), "%)">> >>
    IN [kind |-> "text", lines |-> lines, text |-> JoinLines(lines)]

\* Results the serializer is applied to.
MaxMissing == 1     \* numeric fields that are null or undefined at once

Hargas == {JsNum(900000), JsNum(452000)}
TargetsMin == {JsNum(950000), JsNum(850000), JsNum(900000)}
TargetsMax == {JsNum(1035000), JsNum(480000)}

PresentNum(f, harga, tMin, tMax) ==
    CASE f = "barangBandar" -> JsNum(125000000)
      [] f = "rataRataBandar" -> JsNum(887550)
      [] f = "harga" -> harga
      [] f = "offerTeratas" -> JsNum(905000)
      [] f = "bidTerbawah" -> JsNum(895000)
      [] f = "fraksi" -> JsNum(2500)
      [] f = "totalBid" -> JsNum(152345000)
      [] f = "totalOffer" -> JsNum(98700000)
      [] f = "totalPapan" -> JsNum(2510450)
      [] f = "rataRataBidOfer" -> JsNum(12552250)
      [] f = "a" -> JsNum(44378)
      [] f = "p" -> JsNum(-996)
      [] f = "targetRealistis1" -> tMin
      [] f = "targetMax" -> tMax

FmtResults ==
    { [shape |-> shape, emiten |-> e, fromDate |-> "2024-01-01",
       toDate |-> "2024-01-31", bandar |-> "AK",
       num |-> [f \in NumericFields |->
                  IF f \in missing THEN how
                  ELSE PresentNum(f, harga, tMin, tMax)]] :
        shape \in {DataComplete, DataNoMarket},
        e \in {"bbca", "TLKM"},
        missing \in {m \in SUBSET NumericFields : Cardinality(m) <= MaxMissing},
        how \in {JsNull, JsUndefined},
        harga \in Hargas, tMin \in TargetsMin, tMax \in TargetsMax }

FmtInputs == [result : FmtResults, locale : Locales]

---------------------------------------------------------------------------
\* The serializer is not running: handleCopy's call of it is FormatThrows.
NoFmtIn == "none"
NotFormatted == [kind |-> "none", lines |-> << >>, text |-> ""]

Init ==
    /\ InitCalc
    /\ fmtIn = NoFmtIn
    /\ fmtOut = NotFormatted

Next ==
    \/ \E d \in FormInputs : FormSubmit(d)
    \/ \E t \in PropValues, d \in Dates : SelectStock(t, d)
    \/ \E i \in 1..MaxRequests + 1 : FetchResolve(i)
    \/ \E i \in 1..MaxRequests + 1, t \in FetchThrows : FetchReject(i, t)
    \/ \E i \in 1..MaxRequests + 1, p \in Payloads : JsonResolve(i, p)
    \/ \E i \in 1..MaxRequests + 1, t \in JsonThrows : JsonReject(i, t)
    \/ HandleCopy
    \/ ClipboardResolve
    \/ ClipboardReject
    \/ TimerFire

Spec == Init /\ [][Next]_vars

---------------------------------------------------------------------------
(* The serializer on its own: one call of formatResultForCopy. *)
InitFmt ==
    /\ InitCalc
    /\ fmtIn \in FmtInputs
    /\ fmtOut = NotFormatted

Format ==
    /\ fmtOut = NotFormatted
    /\ fmtOut' = formatResultForCopy(fmtIn.result, fmtIn.locale)
    /\ UNCHANGED <<fmtIn, calcVars>>

NextFmt == Format

SpecFmt == InitFmt /\ [][NextFmt]_vars

---------------------------------------------------------------------------
(* Vocabulary of the claims. *)

\* What the render shows: {loading && ...}, {error && ...}, {result && ...}.
ShowsLoading == loading = TRUE
ShowsResult == Truthy(result)
ShowsError == Truthy(error)

\* The request whose continuation ran last, and what it was given.
LastOutcome == requests[lastEvent.req].outcome

SubmitIssued == Len(requests') = Len(requests) + 1

---------------------------------------------------------------------------
\* C1: from every state handleSubmit can run, and the step that issues a
\* request (its synchronous part, before any response of that request is
\* processed) leaves loading = true, result = null, error = null.
C1_SubmitEntersLoading ==
    /\ [](Len(requests) < MaxRequests
            => ENABLED (\E d \in FormInputs : FormSubmit(d)))
    /\ [][SubmitIssued
            => /\ loading' = TRUE
               /\ result' = Null
               /\ error' = Null
               /\ requests'[Len(requests')].pc = "fetch"]_vars

\* A submit made from Failed (the first request threw) has entered Loading.
C1_Witness ==
    /\ lastEvent = Event("submit", 2)
    /\ requests[1].pc = "done"
    /\ requests[1].outcome.kind = "throw"
    /\ loading = TRUE /\ result = Null /\ error = Null

\* C2: in every reachable state at most one of loading, result, error is
\* active; in particular result and error are never both non-null.
C2_OneStateAtATime ==
    /\ ~(ShowsLoading /\ ShowsResult)
    /\ ~(ShowsLoading /\ ShowsError)
    /\ ~(ShowsResult /\ ShowsError)

\* C3: in every reachable state at most one issued request is still waiting
\* for its response to be processed.
C3_AtMostOneInFlight == Cardinality(InFlight) <= 1

\* C4: right after the response of a request with success = true is
\* processed, loading = false, error = null and result is payload.data.
C4_SuccessGivesSucceeded ==
    (lastEvent.type = "jsonResolve" /\ LastOutcome.success = JsTrue)
        => /\ loading = FALSE
           /\ error = Null
           /\ result = Field(LastOutcome.data)

\* C5: right after the response of a request with success = false or without
\* a success field is processed, loading = false, result = null and error is
\* payload.error when present, else 'Failed to analyze stock'.
C5_FailurePayloadGivesFailed ==
    (lastEvent.type = "jsonResolve" /\ LastOutcome.success \in {JsFalse, Absent})
        => /\ loading = FALSE
           /\ result = Null
           /\ error = IF LastOutcome.error # Absent
                      THEN LastOutcome.error
                      ELSE FallbackAnalyze

\* C6: right after a throw of fetch or of the JSON parse is handled,
\* loading = false, result = null and error is the exception's message when
\* the thrown value is an Error, else 'An error occurred'.
C6_ThrowGivesFailed ==
    (lastEvent.type \in {"fetchReject", "jsonReject"})
        => /\ loading = FALSE
           /\ result = Null
           /\ error = IF LastOutcome.isError
                      THEN LastOutcome.message
                      ELSE FallbackGeneric

\* C7: on every exit path of a request (success payload, failure payload,
\* thrown exception) the step that applies the outcome leaves loading = false.
C7_LoadingClearedOnEveryExit ==
    [][\A i \in 1..Len(requests) :
          (requests[i].pc # "done" /\ requests'[i].pc = "done")
              => loading' = FALSE]_vars

\* A request ended by a throw of a value that is no Error, while another
\* request is still in flight: loading is false.
C7_Witness ==
    /\ lastEvent.type = "fetchReject"
    /\ ~LastOutcome.isError
    /\ InFlight # {}
    /\ loading = FALSE

\* C8: when two submissions overlap and both succeed, and the later-issued
\* one's response is processed first, the result after both are processed is
\* the data of the earlier-issued request (the response processed last), not
\* the data of the later-issued one.
C8_LastResolvedWins ==
    \A i, j \in 1..Len(requests) :
        ( /\ i < j
          /\ requests[j].pc = "done"
          /\ Truthy(Field(requests[j].outcome.success))
          /\ lastEvent = Event("jsonResolve", i)
          /\ Truthy(Field(requests[i].outcome.success)) )
        => /\ result = Field(requests[i].outcome.data)
           /\ (requests[i].outcome.data # requests[j].outcome.data
                  => result # Field(requests[j].outcome.data))

\* Two requests, the second answered first with dataNoMarket, the first
\* answered last with dataComplete, which is what is shown.
C8_Witness ==
    /\ Len(requests) = 2
    /\ lastEvent = Event("jsonResolve", 1)
    /\ requests[2].pc = "done"
    /\ requests[2].outcome = Payload(JsTrue, DataNoMarket, Absent)
    /\ requests[1].outcome = Payload(JsTrue, DataComplete, Absent)
    /\ result = DataComplete

\* C9: a change of selectedStock to a ticker distinct from its previous value
\* clears result and error and issues exactly one submit with emiten = that
\* ticker and fromDate = toDate = one default date; a null value or the same
\* ticker again issues no submit and changes no state.
C9_ExternalSelection ==
    [][/\ (selectedStock' # selectedStock /\ selectedStock' \in Tickers)
           => /\ result' = Null
              /\ error' = Null
              /\ requests' = Append(requests, NewRequest)
              /\ fetchBody'.emiten = selectedStock'
              /\ fetchBody'.fromDate \in Dates
              /\ fetchBody'.toDate = fetchBody'.fromDate
       /\ (lastEvent' = Event("select", 0)
             /\ (selectedStock' = Null \/ selectedStock' = selectedStock))
           => UNCHANGED <<loading, result, error, copied, requests, fetchBody,
                          writes, timers, fetchCalls>>]_vars

\* The selection moved on to TLKM while a request was out: a second request
\* was issued for TLKM with one date.
C9_Witness ==
    /\ lastEvent = Event("select", 0)
    /\ selectedStock = "TLKM"
    /\ Len(requests) = 2
    /\ requests[2].pc = "fetch"
    /\ fetchBody.emiten = "TLKM"
    /\ fetchBody.fromDate = fetchBody.toDate
    /\ result = Null /\ error = Null

CopyEvents == {"copy", "writeResolve", "writeReject", "timer"}

\* C10: handleCopy does nothing when result is null; whether the clipboard
\* write succeeds, fails, or serialization throws, it leaves loading, result
\* and error unchanged; a failed write also leaves copied unchanged.
C10_CopyFrame ==
    [][/\ lastEvent'.type \in CopyEvents
           => UNCHANGED <<loading, result, error>>
       /\ (lastEvent'.type = "copy" /\ (~Truthy(result) \/ FormatThrows(result)))
           => UNCHANGED <<loading, result, error, copied, selectedStock,
                          requests, fetchBody, writes, timers, fetchCalls>>
       /\ lastEvent'.type = "writeReject"
           => copied' = copied]_vars

\* A clipboard write failed while a result was shown and copied was false.
C10_Witness ==
    /\ lastEvent.type = "writeReject"
    /\ result = DataComplete
    /\ copied = FALSE
    /\ writes = 0 /\ timers = 0

\* C11: no timeout: while the network call of an issued request has not
\* resolved, loading is true, in every state from that request's submit on.
C11_UnresolvedKeepsLoading ==
    \A i \in 1..Len(requests) : requests[i].pc = "fetch" => loading = TRUE

\* C12: no retries: every handleSubmit call makes exactly one fetch call and
\* a failure payload or a throw makes no further one; in every reachable
\* state the number of fetch calls equals the number of submits.
C12_OneCallPerSubmit == fetchCalls = Len(requests)

\* One submit, answered {success: false}: Failed, and still one fetch call.
C12_Witness ==
    /\ lastEvent = Event("jsonResolve", 1)
    /\ LastOutcome.success = JsFalse
    /\ error = "Emiten not found"
    /\ Len(requests) = 1
    /\ fetchCalls = 1
    /\ InFlight = {}

\* A successful write whose 2-second window is still open: its reset timer
\* has not run.  All timers have the same delay, so they run in the order
\* they were set and the pending ones belong to the latest writes.
WindowOpen == timers > 0

\* C13: after every successful clipboard write copied is true for the whole
\* 2-second window that follows that write, and then reverts to false, also
\* when a second copy succeeds before the first copy's reset timer has run.
C13_CopiedForWholeWindow ==
    /\ WindowOpen => copied = TRUE
    /\ ~WindowOpen => copied = FALSE

\* The message a settled request stored in error.
StoredMessage(o) ==
    IF o.kind = "throw"
    THEN (IF o.isError THEN o.message ELSE FallbackGeneric)
    ELSE (IF o.error # Absent THEN o.error ELSE FallbackAnalyze)

\* C16: the resolution of a request writes exactly one of result and error
\* and leaves the other as it was: a success sets result and keeps error, a
\* failure payload or a throw sets error and keeps result.
C16_ResolutionWritesOneField ==
    [][\A i \in 1..Len(requests) :
          (requests[i].pc # "done" /\ requests'[i].pc = "done")
              => LET o == requests'[i].outcome IN
                 IF o.kind = "payload" /\ o.success = JsTrue
                 THEN result' = Field(o.data) /\ error' = error
                 ELSE error' = StoredMessage(o) /\ result' = result]_vars

\* A success applied while the error of an overlapping request is shown:
\* the error is still there.
C16_Witness ==
    /\ lastEvent.type = "jsonResolve"
    /\ LastOutcome.success = JsTrue
    /\ result = DataComplete
    /\ error = "Failed to fetch"

\* C17: in every reachable state, under any interleaving of submits,
\* selections, resolutions and copy events, loading = true implies
\* result = null and error = null.
C17_LoadingMeansCleared ==
    loading = TRUE => (result = Null /\ error = Null)

\* Loading again after a first request succeeded, with a clipboard write of
\* the earlier result completing meanwhile.
C17_Witness ==
    /\ loading = TRUE
    /\ result = Null /\ error = Null
    /\ lastEvent.type = "writeResolve"
    /\ copied = TRUE
    /\ Done # {}

\* C18: in every reachable state loading is true exactly when at least one
\* issued request has not had its response processed.
C18_LoadingIffInFlight == (loading = TRUE) <=> (InFlight # {})

---------------------------------------------------------------------------
(* Claims about the serializer, checked under SpecFmt. *)

Formatted == fmtOut # NotFormatted

\* The value formatResultForCopy printed for the numeric field f.
Printed(f) == fmtOut.lines[LineOf(f)][2]

\* C14: for every numeric field formatResultForCopy prints, a null or
\* undefined value renders as '-' (never 'NaN', 'null', 'undefined', '0' or
\* the empty string), and serialization does not fail.
C14_MissingRendersDash ==
    (Formatted /\ fmtIn.result.shape = DataComplete)
        => /\ fmtOut.kind = "text"
           /\ \A f \in NumericFields :
                 Nullish(fmtIn.result.num[f]) => Printed(f) = "-"

\* The gain printed for target field f, as (target, harga) in whole units.
GainAsClaimed(f) ==
    LET line == fmtOut.lines[LineOf(f)]
        T == fmtIn.result.num[f].h \div 100
        P == fmtIn.result.num["harga"].h \div 100
        n0 == (Abs(T - P) * 10000) \div Abs(P)
        Nearest(n) == 2 * Abs(n * Abs(P) - Abs(T - P) * 10000) <= Abs(P)
        Digits(n) == ToString(n \div 100) \o "." \o Pad2(n % 100)
        sign == IF (T < P) # (P < 0) /\ T # P THEN "-" ELSE ""
    IN  /\ line[3] = " (+"
        /\ line[5] = "%)"
        /\ \E n \in {n0, n0 + 1} : Nearest(n) /\ line[4] = sign \o Digits(n)
        /\ (T = 9500 /\ P = 9000) => Concat(SubSeq(line, 3, 5)) = " (+5.56%)"
        /\ (T = 8500 /\ P = 9000) => Concat(SubSeq(line, 3, 5)) = " (+-5.56%)"

\* C15: for each of the two targets the annotation is '+' followed by
\* ((target - harga) / harga) * 100 rounded to exactly two decimals, the '+'
\* being there whatever the sign: '+5.56%' for 9500 against 9000, '+-5.56%'
\* for 8500 against 9000.
C15_GainAnnotation ==
    fmtOut.kind = "text"
        => \A f \in {"targetRealistis1", "targetMax"} :
              ( /\ fmtIn.result.num[f].t = "num"
                /\ fmtIn.result.num["harga"].t = "num"
                /\ fmtIn.result.num[f].h % 100 = 0
                /\ fmtIn.result.num["harga"].h % 100 = 0
                /\ fmtIn.result.num["harga"].h # 0 )
              => GainAsClaimed(f)

\* Price 9000, Target Min 8500 below it and Target Max 10350 above it.
C15_Witness ==
    /\ fmtOut.kind = "text"
    /\ fmtIn.result.num["harga"] = JsNum(900000)
    /\ fmtIn.result.num["targetRealistis1"] = JsNum(850000)
    /\ fmtIn.result.num["targetMax"] = JsNum(1035000)
    /\ Concat(fmtOut.lines[24]) = "Target Min: 8500 (+-5.56%)"
    /\ Concat(fmtOut.lines[25]) = "Target Max: 10350 (+15.00%)"

====
